---- MODULE Spec2Model ----
(***************************************************************************)
(* pyssword: radix conversion and entropy accounting (src/src/pyssword.py). *)
(*                                                                         *)
(* An entropy (a Python float holding log(b**e, 2)) is kept as the record  *)
(* [base |-> b, exp |-> e]; an integer number of bits e is log(2**e, 2).   *)
(* A token is a sequence of characters, a token set a sequence of tokens.  *)
(* Token indices and digit positions are 0-based in the source and are     *)
(* shifted by one where a TLA+ sequence is indexed.                        *)
(***************************************************************************)
EXTENDS Integers, Sequences, FiniteSets, TLC

VARIABLES tokens, is_passphrase, mode, entropy, radix, generator,
          wordset, inputs, pw, count, pc, message

vars == <<tokens, is_passphrase, mode, entropy, radix, generator,
          wordset, inputs, pw, count, pc, message>>

----------------------------------------------------------------------------
(* Bounds of the model *)

MaxEntropy == 6

MaxRadix == 5

MaxInfoWords == 3

----------------------------------------------------------------------------
(* Token lists the runs are started with *)

ant == <<"a", "n", "t">>

bee == <<"b", "e", "e">>

cat == <<"c", "a", "t">>

dog == <<"d", "o", "g">>

TokenLists ==
    { << ant, bee, cat, dog >>,
      << <<"a">>, <<"b">> >>,
      << <<"a">>, <<"b">>, <<"c">> >>,
      << <<"a">>, <<"b">>, <<"c">>, <<"d">>, <<"e">> >> }

----------------------------------------------------------------------------
(* Arithmetic helpers *)

Range(s) == { s[i] : i \in 1..Len(s) }

Max(a, b) == IF a >= b THEN a ELSE b

Min(a, b) == IF a <= b THEN a ELSE b

Bits(b, e) == [base |-> b, exp |-> e]

\* min(b**e, cap), computed without leaving the machine integers
RECURSIVE PowCap(_, _, _)
PowCap(b, e, cap) ==
    IF e = 0 THEN Min(1, cap)
    ELSE LET p == PowCap(b, e - 1, cap)
         IN  IF p >= cap \/ p * b >= cap THEN cap ELSE p * b

\* x < y for two entropies: log(a, 2) < log(b, 2) iff a < b
LessBits(x, y) ==
    LET t == y.base ^ y.exp
    IN  PowCap(x.base, x.exp, t) < t

\* the least L with y**L >= v, i.e. the exact ceil(log(v, 2) / log(y, 2))
RECURSIVE CeilLogFrom(_, _, _, _)
CeilLogFrom(v, y, l, p) ==
    IF p >= v THEN l ELSE CeilLogFrom(v, y, l + 1, p * y)

CeilLog(v, y) == CeilLogFrom(v, y, 0, 1)

\* <<x, y, n>> for which the double quotient log(x**n, 2) / log(y, 2) lands
\* just above the integer it equals exactly (log(125, 2) / log(5, 2) is
\* 3.0000000000000004), so that ceil() returns one more; these are all such
\* triples for x, y in 2..9 and n in 0..9
FloatSlip ==
    { <<5, 5, 3>>, <<5, 5, 5>>, <<5, 5, 6>>, <<5, 5, 9>>,
      <<6, 6, 3>>, <<6, 6, 6>>, <<6, 6, 7>>, <<7, 7, 5>> }

\* ceil(log(x**n, 2) / log(y, 2)) as the double arithmetic evaluates it
CeilLogRatio(x, n, y) ==
    CeilLog(x ^ n, y) + (IF <<x, y, n>> \in FloatSlip THEN 1 ELSE 0)

----------------------------------------------------------------------------
(* TokenSet *)

\* the integer a digit sequence denotes, most significant digit first
RECURSIVE ValueOf(_, _)
ValueOf(number, inradix) ==
    IF number = <<>> THEN 0
    ELSE ValueOf(SubSeq(number, 1, Len(number) - 1), inradix) * inradix
         + number[Len(number)]

\* the while loop of _convert: remainders, least significant first
RECURSIVE Remainders(_, _)
Remainders(n, outradix) ==
    IF n = 0 THEN <<>>
    ELSE <<n % outradix>> \o Remainders(n \div outradix, outradix)

Reversed(s) == [i \in 1..Len(s) |-> s[Len(s) + 1 - i]]

\* _convert returning `digits` instead of `reversed(digits)`
_convert_unreversed(number, inradix, outradix) ==
    LET n == ValueOf(number, inradix)
    IN  IF n = 0 THEN <<0>> ELSE Remainders(n, outradix)

_convert(number, inradix, outradix) ==
    LET n == ValueOf(number, inradix)
        digits == IF n = 0 THEN <<0>> ELSE Remainders(n, outradix)
    IN  Reversed(digits)

\* minlength taken with floor() instead of ceil()
minlength_floor(set, inputs_, radix_) ==
    LET l == CeilLog(radix_ ^ Len(inputs_), Len(set))
    IN  IF Len(set) ^ l = radix_ ^ Len(inputs_) THEN l ELSE l - 1

minlength(set, inputs_, radix_) == CeilLogRatio(radix_, Len(inputs_), Len(set))

\* select returning `result + padding` instead of `padding + result`
select_pad_behind(set, inputs_, radix_) ==
    LET conv == _convert(inputs_, radix_, Len(set))
        result == [i \in 1..Len(conv) |-> set[conv[i] + 1]]
        npad == Max(minlength(set, inputs_, radix_) - Len(result), 0)
        padding == [i \in 1..npad |-> set[1]]
    IN  result \o padding

select(set, inputs_, radix_) ==
    LET conv == _convert(inputs_, radix_, Len(set))
        result == [i \in 1..Len(conv) |-> set[conv[i] + 1]]
        npad == Max(minlength(set, inputs_, radix_) - Len(result), 0)
        padding == [i \in 1..npad |-> set[1]]
    IN  padding \o result

\* "token in self.value"
Contains(p, token) == token \in Range(p.value)

\* restrict that drops only the first word of the other set
restrict_first(set, other) ==
    SelectSeq(set, LAMBDA w : other.value = <<>> \/ w # Head(other.value))

\* restrict that starts from the whole word list on every pass
restrict_whole_list(set, other) ==
    SelectSeq(tokens, LAMBDA w : ~Contains(other, w))

restrict(set, other) == SelectSeq(set, LAMBDA w : ~Contains(other, w))

----------------------------------------------------------------------------
(* Password *)

\* ceil(desired_entropy / log(radix, 2)); for an integer number of bits the
\* double quotient gives the exact ceiling (no triple of FloatSlip has base 2)
Total(desired_entropy, radix_) ==
    CeilLogRatio(desired_entropy.base, desired_entropy.exp, radix_)

\* list(itertools.islice(source, total))
Islice(source, total) == SubSeq(source, 1, Min(total, Len(source)))

\* the object built by Password.__init__ once `taken` digits were sliced
Password(set, radix_, taken) ==
    [set |-> set,
     entropy |-> Bits(radix_, Len(taken)),
     inputs |-> taken,
     value |-> select(set, taken, radix_)]

Empty == [set |-> <<>>, entropy |-> Bits(2, 0), inputs |-> <<>>, value |-> <<>>]

RECURSIVE Join(_)
Join(value) ==
    IF value = <<>> THEN <<>> ELSE Head(value) \o Join(Tail(value))

loose_entropy(p) ==
    LET s == Join(p.value)
    IN  IF s = <<>> THEN Bits(2, 0)
        ELSE Bits(Cardinality(Range(s)), Len(s))

----------------------------------------------------------------------------
(* Digit sources *)

IsList == generator.kind = "list"

Digits(n) == [1..n -> 0..(radix - 1)]

\* how many values islice draws past the accumulated inputs when the
\* source never ends
Needed == Max(Total(entropy, radix) - Len(inputs), 0)

\* what a generator can yield for those draws; a list is read as it is
Fresh == IF IsList THEN { <<>> } ELSE Digits(Needed)

----------------------------------------------------------------------------
(* run *)

NotEnoughChars == "Not enough characters to choose from.  Use a longer set."

NotEnoughWords == "Not enough words to choose from.  Use a longer set."

Init ==
    /\ tokens \in TokenLists
    /\ is_passphrase \in BOOLEAN
    /\ mode \in {"random", "read", "info"}
    /\ mode = "info" => is_passphrase
    /\ \/ /\ mode = "info"
          /\ radix = Len(tokens)
          /\ \E n \in 1..MaxInfoWords :
                \E values \in [1..n -> 0..(Len(tokens) - 1)] :
                   /\ generator = [kind |-> "list", values |-> values]
                   /\ entropy = Bits(Len(tokens), n)
       \/ /\ mode = "read"
          /\ entropy \in { Bits(2, e) : e \in 1..MaxEntropy }
          /\ radix \in 2..MaxRadix
          /\ generator = [kind |-> "generator", values |-> <<>>]
       \/ /\ mode = "random"
          /\ entropy \in { Bits(2, e) : e \in 1..MaxEntropy }
          /\ radix = Len(tokens)
          /\ generator = [kind |-> "generator", values |-> <<>>]
    /\ wordset = <<>>
    /\ inputs = <<>>
    /\ pw = Empty
    /\ count = 0
    /\ pc = "start"
    /\ message = ""

\* the message CharSet.__init__ exits with, "" when it returns
CharSetError(set) == IF Len(set) < 2 THEN NotEnoughChars ELSE ""

\* WordSet.__init__: the CharSet constructor runs (and exits) first, the
\* check of WordSet itself comes after it
WordSetError(set) ==
    IF CharSetError(set) # "" THEN CharSetError(set)
    ELSE IF Len(set) < 2 THEN NotEnoughWords ELSE ""

\* Password(entropy, set, radix, source(inputs, generator)): the values
\* sliced from chain(inputs, generator), and how many of them the generator
\* gave
Construct(set, fresh) ==
    LET chained == inputs \o (IF IsList THEN generator.values ELSE fresh)
        taken == Islice(chained, Total(entropy, radix))
    IN  /\ pw' = Password(set, radix, taken)
        /\ count' = count + Max(Len(taken) - Len(inputs), 0)

GeneratePassword ==
    /\ pc = "start"
    /\ ~is_passphrase
    /\ wordset' = tokens
    /\ IF CharSetError(tokens) # ""
       THEN /\ pc' = "error"
            /\ message' = CharSetError(tokens)
            /\ UNCHANGED <<pw, count>>
       ELSE /\ \E fresh \in Fresh : Construct(tokens, fresh)
            /\ pc' = "done"
            /\ message' = ""
    /\ UNCHANGED <<tokens, is_passphrase, mode, entropy, radix, generator,
                   inputs>>

BeginPassphrase ==
    /\ pc = "start"
    /\ is_passphrase
    /\ wordset' = tokens
    /\ inputs' = <<>>
    /\ pw' = Empty
    /\ IF WordSetError(tokens) # ""
       THEN pc' = "error" /\ message' = WordSetError(tokens)
       ELSE pc' = "loop" /\ message' = ""
    /\ UNCHANGED <<tokens, is_passphrase, mode, entropy, radix, generator,
                   count>>

Iterate ==
    /\ pc = "loop"
    /\ LessBits(loose_entropy(pw), entropy)
    /\ IF WordSetError(restrict(wordset, pw)) # ""
       THEN /\ pc' = "error"
            /\ message' = WordSetError(restrict(wordset, pw))
            /\ UNCHANGED <<wordset, pw, inputs, count>>
       ELSE /\ wordset' = restrict(wordset, pw)
            /\ \E fresh \in Fresh : Construct(wordset', fresh)
            /\ inputs' = pw'.inputs
            /\ pc' = "loop"
            /\ message' = ""
    /\ UNCHANGED <<tokens, is_passphrase, mode, entropy, radix, generator>>

Finish ==
    /\ pc = "loop"
    /\ ~LessBits(loose_entropy(pw), entropy)
    /\ pc' = "done"
    /\ UNCHANGED <<tokens, is_passphrase, mode, entropy, radix, generator,
                   wordset, inputs, pw, count, message>>

Next == GeneratePassword \/ BeginPassphrase \/ Iterate \/ Finish

Spec == Init /\ [][Next]_vars

----------------------------------------------------------------------------
(* Vocabulary of the properties *)

\* a value built by Password.__init__ is in pw
Generated == pw.value # <<>>

\* the 0-based position of a token in a token set of unique tokens
IndexOf(set, token) == CHOOSE i \in 0..(Len(set) - 1) : set[i + 1] = token

\* the generated value read back as digits in the radix of its token set
Indices(p) == [i \in 1..Len(p.value) |-> IndexOf(p.set, p.value[i])]

\* the number of digits of n in radix y without leading zeros (1 for 0)
RECURSIVE NumDigits(_, _)
NumDigits(n, y) == IF n < y THEN 1 ELSE 1 + NumDigits(n \div y, y)

RECURSIVE StripZeros(_)
StripZeros(s) ==
    IF Len(s) > 1 /\ Head(s) = 0 THEN StripZeros(Tail(s)) ELSE s

PadTo(s, n) == [i \in 1..Max(n - Len(s), 0) |-> 0] \o s

\* the token set whose tokens are the digits 0..r-1 themselves
DigitSet(r) == [i \in 1..r |-> i - 1]

\* one more pass of the passphrase loop has built a passphrase after another
NextPassphrase == pc = "loop" /\ pc' = "loop" /\ Generated /\ pw' # pw

----------------------------------------------------------------------------
(* Radix converter *)

\* C1: the generated value, read as an integer in the radix of its token
\* set, equals the integer the consumed digits denote in the input radix; it
\* is never empty, has at least minlength tokens, and every token in front
\* of the significant digits is the token of index 0.
C1_ValuePreserved ==
    Generated =>
        LET idx == Indices(pw)
            A == Len(pw.set)
            n == ValueOf(pw.inputs, radix)
        IN  /\ ValueOf(idx, A) = n
            /\ Len(idx) >= 1
            /\ Len(idx) >= minlength(pw.set, pw.inputs, radix)
            /\ \A i \in 1..(Len(idx) - NumDigits(n, A)) : idx[i] = 0
            /\ Len(idx) >= NumDigits(n, A)

C1_Witness ==
    /\ Generated
    /\ ValueOf(pw.inputs, radix) > 0
    /\ Len(pw.value) > NumDigits(ValueOf(pw.inputs, radix), Len(pw.set))
    /\ Len(pw.set) # radix

\* C2: converting the consumed digits to the radix of the token set and the
\* result back to the input radix gives the digits again: exactly once
\* padded to their length, and up to leading zeros when select pads.
C2_RoundTrip ==
    (Generated /\ pw.inputs # <<>>) =>
        LET d == pw.inputs
            A == Len(pw.set)
            e == Indices(pw)
        IN  /\ PadTo(_convert(e, A, radix), Len(d)) = d
            /\ StripZeros(select(DigitSet(radix), e, A)) = StripZeros(d)

C2_Witness ==
    /\ Generated
    /\ Len(pw.inputs) >= 2
    /\ Len(pw.set) # radix
    /\ Head(pw.inputs) = 0
    /\ ValueOf(pw.inputs, radix) > 0
    /\ Len(select(DigitSet(radix), Indices(pw), Len(pw.set))) > Len(pw.inputs)

\* C10: a value generated from N >= 1 digits has exactly L tokens, L the
\* least integer with A^L >= R^N.
C10_ExactLength ==
    (Generated /\ Len(pw.inputs) >= 1) =>
        Len(pw.value) = CeilLog(radix ^ Len(pw.inputs), Len(pw.set))

----------------------------------------------------------------------------
(* Entropy accounting *)

\* C3: with N digits consumed, R^N >= 2^target and R^(N-1) < 2^target.
C3_CeilingBound ==
    Generated =>
        LET N == Len(pw.inputs)
            T == entropy.base ^ entropy.exp
        IN  /\ radix ^ N >= T
            /\ N >= 1
            /\ radix ^ (N - 1) < T

\* C4: every generated value consumed exactly total_digits digits.
C4_NeverShort ==
    Generated => Len(pw.inputs) = Total(entropy, radix)

\* C5 as stated: the output entropy never exceeds the input entropy,
\* A^L <= R^N.
C5_NoMoreThanInput ==
    Generated => Len(pw.set) ^ Len(pw.value) <= radix ^ Len(pw.inputs)

\* C5 as amended: the output is long enough to hold the input entropy,
\* A^L >= R^N, and the entropy reported is the input entropy N*log2(R).
C5_HoldsInput ==
    Generated =>
        /\ Len(pw.set) ^ Len(pw.value) >= radix ^ Len(pw.inputs)
        /\ pw.entropy = Bits(radix, Len(pw.inputs))

C5_Witness ==
    /\ Generated
    /\ Len(pw.set) ^ Len(pw.value) > radix ^ Len(pw.inputs)
    /\ Len(pw.value) > NumDigits(ValueOf(pw.inputs, radix), Len(pw.set))

----------------------------------------------------------------------------
(* Passphrase loop *)

FourWords ==
    /\ Len(tokens) = 4
    /\ radix = 4
    /\ entropy = Bits(2, 4)

C7_ExitOrNotEnoughWords ==
    /\ (is_passphrase /\ pc = "done") =>
            ~LessBits(loose_entropy(pw), entropy)
    /\ (is_passphrase /\ pc = "error") => message = NotEnoughWords

\* every pass after the first leaves fewer candidate words, so the loop
\* cannot go on for ever
LoopVariant == [][NextPassphrase => Len(wordset') < Len(wordset)]_vars

\* C8 as stated: each pass produces one word more than the pass before it.
C8_OneMoreWord ==
    [][NextPassphrase => Len(pw'.value) = Len(pw.value) + 1]_vars

\* C8 as amended: a pass never produces fewer words than the pass before
\* it.
C8_NeverFewerWords ==
    [][NextPassphrase => Len(pw'.value) >= Len(pw.value)]_vars

C8_Witness ==
    /\ is_passphrase
    /\ pc = "loop"
    /\ Generated
    /\ Len(wordset) + 2 <= Len(tokens)
    /\ Len(pw.value) > Len(pw.inputs)

\* C9: every pass consumes the same total digits; from the second pass on
\* the consumed digits are those of the pass before and nothing is drawn
\* from the generator, which gives exactly total digits over the whole run.
C9_GeneratorReadOnce ==
    /\ []((is_passphrase /\ Generated) =>
            /\ Len(pw.inputs) = Total(entropy, radix)
            /\ count = Total(entropy, radix))
    /\ [][NextPassphrase =>
            /\ pw'.inputs = pw.inputs
            /\ count' = count]_vars

====
